---- MODULE Spec2Model ----
(***************************************************************************)
(* Model of the WIP core of Custom-Jira-Kanban-Metrics:                    *)
(*   parse_wip_ranges                 (modules/metrics_calculations.py)    *)
(*   get_issues_in_progress_in_month  (modules/metrics_calculations.py)    *)
(*   plot_daily_wip_time_series / show_daily_wip_table                     *)
(*                                    (modules/visualizations.py)          *)
(* and of the fetching and cycle-time code around it:                      *)
(*   fetch_issues / get_wip_issues / get_cycle_time_issues /               *)
(*   get_last_n_months_issues         (modules/jira_api.py)                *)
(*   parse_cycle_time_issues          (modules/metrics_calculations.py)    *)
(*                                                                         *)
(* Time is counted in ticks, TicksPerDay ticks to a calendar day.  A       *)
(* changelog 'created' value is a string: it is modelled by its wall-clock *)
(* reading and its UTC offset.  sorted() orders the strings; pd.to_datetime*)
(* (utc=True) turns a string into an instant (wall - off).                 *)
(***************************************************************************)
EXTENDS Integers, Sequences, FiniteSets, TLC

VARIABLES
  issues,           \* parse_wip_ranges: the batch passed in
  end_date,         \* parse_wip_ranges: the end_date passed in (an instant)
  i,                \* parse_wip_ranges: number of issues the for loop has taken
  pc,               \* parse_wip_ranges: "idle" | "loop" | "done" | "raised"
  wip_records,      \* parse_wip_ranges: the list being built
  seen_keys,        \* parse_wip_ranges: the set seen_keys
  missing_details,  \* parse_wip_ranges: the list missing_details
  emitted_by,       \* history: for each record of wip_records, the issue index
                    \* and the append (closed / open / fallback) that made it
  m_records,        \* get_issues_in_progress_in_month: wip_records passed in
  m_month,          \* get_issues_in_progress_in_month: target month (1..12 of one year)
  m_pc,             \* get_issues_in_progress_in_month: "idle" | "call" | "done" | "raised"
  m_rows,           \* get_issues_in_progress_in_month: the rows of the returned frame
  c_records,        \* daily census: wip_records passed in
  c_today,          \* daily census: the calendar day datetime.now() falls in
  c_lookback,       \* daily census: days_lookback
  c_pc,             \* daily census: "idle" | "call" | "done" | "raised"
  c_fn,             \* daily census: "plot" | "table", the function called
  wip_counts,       \* daily census: the Series, as a sequence of [day, count]
  c_summary,        \* daily census: the summary lines plot_daily_wip_time_series prints
  t_now,            \* the wall clock (datetime.now()), which moves between calls
  t_call,           \* parse_wip_ranges: 1 during the first call, 2 during a repeated one
  t_first,          \* parse_wip_ranges: what the first call returned, once it is over
  p_fn,             \* pagination: "fetch_issues" | "get_wip_issues" | "get_cycle_time_issues"
  p_pc,             \* pagination: "idle" | "loop" | "got" | "after" | "returned" | "raised"
  p_token,          \* pagination: the local token
  p_all,            \* pagination: the list all_issues / issues being extended
  p_result,         \* pagination: the local result, the page _search_jql returned
  p_requests,       \* pagination: the payloads posted so far, in order
  p_pages,          \* pagination: the pages the server answered with so far, in order
  p_returned,       \* pagination: the value returned to the caller
  q_fn,             \* query start: "get_last_n_months_issues" | "get_cycle_time_issues"
  q_now,            \* query start: the date of datetime.now(timezone.utc)
  q_months,         \* query start: the argument months
  q_pc,             \* query start: "idle" | "call" | "built"
  q_start,          \* query start: the date start_str is formatted from
  y_issues,         \* parse_cycle_time_issues: the issues passed in
  y_i,              \* parse_cycle_time_issues: number of issues the for loop has taken
  y_pc,             \* parse_cycle_time_issues: "idle" | "loop" | "done"
  y_records,        \* parse_cycle_time_issues: the list records
  y_by              \* history: for each record of y_records, the index of its issue

vars == <<issues, end_date, i, pc, wip_records, seen_keys, missing_details,
          emitted_by, m_records, m_month, m_pc, m_rows,
          c_records, c_today, c_lookback, c_pc, c_fn, wip_counts, c_summary,
          t_now, t_call, t_first,
          p_fn, p_pc, p_token, p_all, p_result, p_requests, p_pages, p_returned,
          q_fn, q_now, q_months, q_pc, q_start,
          y_issues, y_i, y_pc, y_records, y_by>>

parseVars == <<issues, end_date, i, pc, wip_records, seen_keys,
               missing_details, emitted_by>>
monthVars == <<m_records, m_month, m_pc, m_rows>>
censusVars == <<c_records, c_today, c_lookback, c_pc, c_fn, wip_counts, c_summary>>
twiceVars == <<t_now, t_call, t_first>>
pageVars == <<p_fn, p_pc, p_token, p_all, p_result, p_requests, p_pages, p_returned>>
startVars == <<q_fn, q_now, q_months, q_pc, q_start>>
cycleVars == <<y_issues, y_i, y_pc, y_records, y_by>>
restVars == <<twiceVars, pageVars, startVars, cycleVars>>

(***************************************************************************)
(* Bounds of the model.                                                    *)
(***************************************************************************)
TicksPerDay == 2
MaxHist == 3
MaxIssues == 2
MaxRecords == 2
MaxPages == 3
MaxMonths == 25

(***************************************************************************)
(* Values.                                                                 *)
(***************************************************************************)
None == << >>
Some(x) == <<x>>
Val(o) == o[1]

Max(a, b) == IF a >= b THEN a ELSE b

InProgress == "In Progress"

\* pd.Timedelta(days=30), in days
FallbackDays == 30

Days(n) == n * TicksPerDay

(***************************************************************************)
(* Inputs of parse_wip_ranges.                                             *)
(***************************************************************************)
Stamp(w, o) == [wall |-> w, off |-> o]

\* 'created' strings of changelog entries: three at offset +0 and one, Stamp(1, 1),
\* that sorts after Stamp(1, 0) as a string and denotes an earlier instant
Stamps == {Stamp(1, 0), Stamp(1, 1), Stamp(2, 0), Stamp(3, 0)}

EnterItem == [field |-> "status", fromString |-> "To Do", toString |-> InProgress]
LeaveItem == [field |-> "status", fromString |-> InProgress, toString |-> "Done"]
OtherItem == [field |-> "resolution", fromString |-> InProgress, toString |-> InProgress]

StatusItemLists == {<<EnterItem>>, <<LeaveItem>>}

\* a changelog entry; created = None stands for an entry with no 'created'
Entry(c, its) == [created |-> c, items |-> its]

Entries ==
  {Entry(Some(s), its) : s \in Stamps, its \in StatusItemLists}
    \cup {Entry(Some(Stamp(2, 0)), <<OtherItem>>), Entry(None, <<EnterItem>>)}

\* the changelogs of the issues of a batch of several issues
BatchHistories ==
  {<< >>,
   <<Entry(Some(Stamp(1, 0)), <<EnterItem>>)>>,
   <<Entry(Some(Stamp(1, 0)), <<EnterItem>>), Entry(Some(Stamp(2, 0)), <<LeaveItem>>)>>,
   <<Entry(None, <<EnterItem>>)>>}

SeqsUpTo(S, n) == UNION {[1..k -> S] : k \in 0..n}

CreatedStamps == {Stamp(0, 0), Stamp(Days(10), 0)}

EndDates == {2, Days(35)}

Issue(k, st, c, h) ==
  [key |-> k,
   fields |-> [summary |-> "s-" \o k, assignee |-> "u", status |-> st, created |-> c],
   histories |-> h]

RichIssues ==
  {Issue("A", st, c, h) :
     st \in {InProgress, "Done"}, c \in CreatedStamps, h \in SeqsUpTo(Entries, MaxHist)}

BatchIssues ==
  {Issue(k, st, c, h) :
     k \in {"A", "B"}, st \in {InProgress, "Done"}, c \in CreatedStamps,
     h \in BatchHistories}

Batches ==
  {<<x>> : x \in RichIssues} \cup SeqsUpTo(BatchIssues, MaxIssues)

(***************************************************************************)
(* parse_wip_ranges                                                        *)
(***************************************************************************)
\* pd.to_datetime(<string>, utc=True): the instant a timestamp string denotes
ToDatetimeUtc(s) == s.wall - s.off

\* str < str on two timestamp strings of the same layout: the wall-clock
\* digits come first, the offset last
StrLess(a, b) == a.wall < b.wall \/ (a.wall = b.wall /\ a.off < b.off)

\* x["created"] raises KeyError for an entry with no 'created'
HasKeyError(changelog) ==
  \E n \in 1..Len(changelog) : changelog[n].created = None

RECURSIVE InsertSorted(_, _)
InsertSorted(sortedSeq, e) ==
  IF sortedSeq = << >> THEN <<e>>
  ELSE IF StrLess(Val(e.created), Val(sortedSeq[Len(sortedSeq)].created))
       THEN Append(InsertSorted(SubSeq(sortedSeq, 1, Len(sortedSeq) - 1), e),
                   sortedSeq[Len(sortedSeq)])
       ELSE Append(sortedSeq, e)

\* sorted(changelog, key=lambda x: x["created"]): stable, ascending by string
RECURSIVE SortedChangelog(_)
SortedChangelog(changelog) ==
  IF changelog = << >> THEN << >>
  ELSE InsertSorted(SortedChangelog(SubSeq(changelog, 1, Len(changelog) - 1)),
                    changelog[Len(changelog)])

WipRecord(issue, s, e) ==
  [key |-> issue.key, summary |-> issue.fields.summary,
   assignee |-> issue.fields.assignee, start |-> s, end |-> e]

\* the state of the walk over one issue: the two locals and what was appended
WalkInit == [in_progress_start |-> None, in_progress_end |-> None, out |-> << >>]

\* the body of `for item in entry.get("items", [])`
ItemStep(w, issue, timestamp, item) ==
  IF item.field # "status" THEN w
  ELSE IF item.toString = InProgress /\ w.in_progress_start = None
       THEN [w EXCEPT !.in_progress_start = Some(timestamp)]
  ELSE IF item.fromString = InProgress /\ w.in_progress_start # None
       THEN [in_progress_start |-> None,
             in_progress_end |-> Some(timestamp),
             out |-> Append(w.out, WipRecord(issue, Val(w.in_progress_start), timestamp))]
  ELSE w

RECURSIVE ItemsWalk(_, _, _, _)
ItemsWalk(w, issue, timestamp, items) ==
  IF items = << >> THEN w
  ELSE ItemsWalk(ItemStep(w, issue, timestamp, Head(items)), issue, timestamp, Tail(items))

\* the `for entry in sorted(...)` loop, over the entries already sorted
RECURSIVE EntriesWalk(_, _, _)
EntriesWalk(w, issue, entries) ==
  IF entries = << >> THEN w
  ELSE EntriesWalk(
         ItemsWalk(w, issue, ToDatetimeUtc(Val(Head(entries).created)), Head(entries).items),
         issue, Tail(entries))

Walk(issue) == EntriesWalk(WalkInit, issue, SortedChangelog(issue.histories))

\* StillInProgress without its test of current_status
StillInProgress_NoStatusTest(w, issue) ==
  /\ w.in_progress_start # None
  /\ w.in_progress_end = None

\* the test of the "Still in progress" branch
StillInProgress(w, issue) ==
  /\ w.in_progress_start # None
  /\ w.in_progress_end = None
  /\ issue.fields.status = InProgress

\* NeedsFallback without its test of seen_keys
NeedsFallback_IgnoresSeen(issue, seen) ==
  issue.fields.status = InProgress

\* the test of the "Fallback logic" branch, on seen_keys as the branch finds it
NeedsFallback(issue, seen) ==
  issue.fields.status = InProgress /\ issue.key \notin seen

InferredStart(issue, e) ==
  Max(ToDatetimeUtc(issue.fields.created), e - Days(FallbackDays))

Tag(n, b) == [issue |-> n, branch |-> b]

InitParse ==
  /\ issues \in Batches
  /\ end_date \in EndDates
  /\ i = 0
  /\ pc = "loop"
  /\ wip_records = << >>
  /\ seen_keys = {}
  /\ missing_details = << >>
  /\ emitted_by = << >>

\* one iteration of `for issue in issues` that runs to its end
ProcessIssue ==
  /\ pc = "loop"
  /\ i < Len(issues)
  /\ LET issue == issues[i + 1]
         w == Walk(issue)
         open == StillInProgress(w, issue)
         seen1 == IF open THEN seen_keys \cup {issue.key} ELSE seen_keys
         fallback == NeedsFallback(issue, seen1)
         closedTags == [n \in 1..Len(w.out) |-> Tag(i + 1, "closed")]
         openRecs == IF open
                     THEN <<WipRecord(issue, Val(w.in_progress_start), end_date)>>
                     ELSE << >>
         openTags == IF open THEN <<Tag(i + 1, "open")>> ELSE << >>
         fbRecs == IF fallback
                   THEN <<WipRecord(issue, InferredStart(issue, end_date), end_date)>>
                   ELSE << >>
         fbTags == IF fallback THEN <<Tag(i + 1, "fallback")>> ELSE << >>
     IN /\ ~HasKeyError(issue.histories)
        /\ wip_records' = wip_records \o w.out \o openRecs \o fbRecs
        /\ emitted_by' = emitted_by \o closedTags \o openTags \o fbTags
        /\ seen_keys' = IF fallback THEN seen1 \cup {issue.key} ELSE seen1
        /\ missing_details' =
             IF fallback
             THEN Append(missing_details, <<issue.key, issue.fields.summary>>)
             ELSE missing_details
  /\ i' = i + 1
  /\ UNCHANGED <<issues, end_date, pc>>

\* an iteration whose sorted() call raises KeyError: the call ends there
RaiseKeyError ==
  /\ pc = "loop"
  /\ i < Len(issues)
  /\ HasKeyError(issues[i + 1].histories)
  /\ pc' = "raised"
  /\ i' = i + 1
  /\ UNCHANGED <<issues, end_date, wip_records, seen_keys, missing_details, emitted_by>>

\* the loop is over: return wip_records, missing_details
Return ==
  /\ pc = "loop"
  /\ i = Len(issues)
  /\ pc' = "done"
  /\ UNCHANGED <<issues, end_date, i, wip_records, seen_keys, missing_details, emitted_by>>

(***************************************************************************)
(* get_issues_in_progress_in_month                                         *)
(***************************************************************************)
\* the lengths, in days, of the months of the (non-leap) year of the model
MonthDays == <<31, 28, 31, 30, 31, 30, 31, 31, 30, 31, 30, 31>>

RECURSIVE DaysBefore(_)
DaysBefore(m) == IF m = 1 THEN 0 ELSE DaysBefore(m - 1) + MonthDays[m - 1]

\* target_period.start_time: the first instant of the month
StartOfMonth(m) == Days(DaysBefore(m))

\* target_period.end_time: the last instant of the month
EndOfMonth(m) == Days(DaysBefore(m) + MonthDays[m]) - 1

PlainRecord(k, s, e) ==
  [key |-> k, summary |-> "s-" \o k, assignee |-> "u", start |-> s, end |-> e]

\* instants around the February window of the model's year
MonthInstants ==
  {StartOfMonth(2) - 1, StartOfMonth(2), Days(DaysBefore(2) + 27),
   EndOfMonth(2), StartOfMonth(3)}

Intervals(S) == {p \in S \X S : p[1] <= p[2]}

MonthRecords ==
  {PlainRecord(k, p[1], p[2]) : k \in {"A", "B"}, p \in Intervals(MonthInstants)}

TargetMonths == {2, 3}

\* the test of line 360
OverlapsMonth(record, m) ==
  record.start <= EndOfMonth(m) /\ record.end >= StartOfMonth(m)

\* TimedeltaDays rounding a part of a day up
TimedeltaDays_RoundUp(d) == (d + TicksPerDay - 1) \div TicksPerDay

\* timedelta.days: whole days, rounded down
TimedeltaDays(d) == d \div TicksPerDay

MonthRow(record) ==
  [key |-> record.key, summary |-> record.summary, assignee |-> record.assignee,
   in_progress_start |-> record.start, in_progress_end |-> record.end,
   days_in_progress |-> TimedeltaDays(record.end - record.start)]

\* the `for record in wip_records` loop: matched, in input order
RECURSIVE Matched(_, _)
Matched(records, m) ==
  IF records = << >> THEN << >>
  ELSE LET rest == Matched(SubSeq(records, 1, Len(records) - 1), m)
           last == records[Len(records)]
       IN IF OverlapsMonth(last, m) THEN Append(rest, MonthRow(last)) ELSE rest

RECURSIVE InsertRow(_, _)
InsertRow(rows, r) ==
  IF rows = << >> THEN <<r>>
  ELSE IF r.in_progress_start < rows[Len(rows)].in_progress_start
       THEN Append(InsertRow(SubSeq(rows, 1, Len(rows) - 1), r), rows[Len(rows)])
       ELSE Append(rows, r)

\* SortValues leaving the rows as matched
SortValues_Unsorted(rows) == rows

\* df.sort_values("in_progress_start"): ascending; the default sort kind
\* sorts a frame of this size by insertion, which keeps equal rows in order
RECURSIVE SortValues(_)
SortValues(rows) ==
  IF rows = << >> THEN << >>
  ELSE InsertRow(SortValues(SubSeq(rows, 1, Len(rows) - 1)), rows[Len(rows)])

InitMonth ==
  /\ m_records \in SeqsUpTo(MonthRecords, MaxRecords)
  /\ m_month \in TargetMonths
  /\ m_pc = "call"
  /\ m_rows = << >>

\* a call with at least one overlapping record: the sorted frame is returned
MonthReturn ==
  /\ m_pc = "call"
  /\ Matched(m_records, m_month) # << >>
  /\ m_rows' = SortValues(Matched(m_records, m_month))
  /\ m_pc' = "done"
  /\ UNCHANGED <<m_records, m_month>>

\* a call with no overlapping record: pd.DataFrame([]) has no column
\* 'in_progress_start' and sort_values raises KeyError
MonthRaiseKeyError ==
  /\ m_pc = "call"
  /\ Matched(m_records, m_month) = << >>
  /\ m_pc' = "raised"
  /\ UNCHANGED <<m_records, m_month, m_rows>>

(***************************************************************************)
(* plot_daily_wip_time_series, show_daily_wip_table                        *)
(***************************************************************************)
\* datetime.now(utc).replace(hour=23, minute=59, second=59, microsecond=999999)
\* on calendar day d: the last instant of d
EndOfDay(d) == Days(d) + TicksPerDay - 1

\* DateRange without the day of end_date
DateRange_WithoutEnd(today, n) ==
  IF n < 0 THEN << >>
  ELSE [k \in 1..n |-> EndOfDay(today - n) + Days(k - 1)]

\* pd.date_range(start=end_date - timedelta(days=n), end=end_date, freq='D'):
\* the instants start, start + 1 day, ... up to end_date; none when start > end
DateRange(today, n) ==
  IF n < 0 THEN << >>
  ELSE [k \in 1..(n + 1) |-> EndOfDay(today - n) + Days(k - 1)]

\* the nested loops: for each instant of the range, the records with
\* start <= day <= end
CountOn(records, day) ==
  Cardinality({n \in 1..Len(records) : records[n].start <= day /\ day <= records[n].end})

DailyCounts(records, today, n) ==
  LET range == DateRange(today, n)
  IN [k \in 1..Len(range) |-> [day |-> range[k], count |-> CountOn(records, range[k])]]

\* strftime("%Y-%m-%d"): the calendar day of an instant
StrftimeDate(t) == t \div TicksPerDay

RECURSIVE SumCounts(_)
SumCounts(counts) ==
  IF counts = << >> THEN 0 ELSE counts[1].count + SumCounts(Tail(counts))

\* the "Summary Lines" of plot_daily_wip_time_series over a Series with at
\* least one day; the mean is kept as the sum, to be divided by the length
SummaryLines(counts) ==
  [latest_date |-> StrftimeDate(counts[Len(counts)].day),
   current |-> counts[Len(counts)].count,
   max |-> CHOOSE x \in {counts[k].count : k \in 1..Len(counts)} :
             \A k \in 1..Len(counts) : counts[k].count <= x,
   min |-> CHOOSE x \in {counts[k].count : k \in 1..Len(counts)} :
             \A k \in 1..Len(counts) : counts[k].count >= x,
   sum |-> SumCounts(counts)]

\* instants on days 0, 2, 4 and 9 of the model's year
CensusInstants ==
  {Days(0), Days(2), Days(2) + TicksPerDay - 1, Days(4), Days(9),
   Days(9) + TicksPerDay - 1}

CensusRecords == {PlainRecord("A", p[1], p[2]) : p \in Intervals(CensusInstants)}

Lookbacks == {-1, 0, 2, 9}

InitCensus ==
  /\ c_records \in SeqsUpTo(CensusRecords, MaxRecords)
  /\ c_today = 9
  /\ c_lookback \in Lookbacks
  /\ c_fn \in {"plot", "table"}
  /\ c_pc = "call"
  /\ wip_counts = << >>
  /\ c_summary = None

\* either function on a range with at least one day, and show_daily_wip_table
\* on an empty range: the counts are computed and shown
CensusReturn ==
  /\ c_pc = "call"
  /\ c_fn = "table" \/ c_lookback >= 0
  /\ wip_counts' = DailyCounts(c_records, c_today, c_lookback)
  /\ c_summary' = IF c_fn = "plot" THEN Some(SummaryLines(wip_counts')) ELSE None
  /\ c_pc' = "done"
  /\ UNCHANGED <<c_records, c_today, c_lookback, c_fn>>

\* plot_daily_wip_time_series on an empty range: wip_counts.index[-1] raises
CensusRaiseIndexError ==
  /\ c_pc = "call"
  /\ c_fn = "plot" /\ c_lookback < 0
  /\ wip_counts' = DailyCounts(c_records, c_today, c_lookback)
  /\ c_pc' = "raised"
  /\ UNCHANGED <<c_records, c_today, c_lookback, c_fn, c_summary>>

(***************************************************************************)
(* parse_wip_ranges called again with the arguments of the call before     *)
(***************************************************************************)
\* the locals of a call that keeps what the call before it left in them
LocalsAtEntry_KeptFromLastCall(left) == left

\* wip_records = [], seen_keys = set(), missing_details = [] at the entry of
\* a call, whatever the call before it left in them
LocalsAtEntry(left) ==
  [wip_records |-> << >>, seen_keys |-> {}, missing_details |-> << >>]

\* what a call that is over handed to its caller: the returned pair, or the
\* KeyError it raised
Outcome ==
  IF pc = "done"
  THEN [returned |-> TRUE, wip_records |-> wip_records,
        missing_details |-> missing_details]
  ELSE [returned |-> FALSE, wip_records |-> << >>, missing_details |-> << >>]

\* the first call is over; the caller calls parse_wip_ranges(issues, end_date)
\* again, later on the wall clock
CallAgain ==
  /\ pc \in {"done", "raised"}
  /\ t_call = 1
  /\ LET locals == LocalsAtEntry([wip_records |-> wip_records,
                                  seen_keys |-> seen_keys,
                                  missing_details |-> missing_details])
     IN /\ wip_records' = locals.wip_records
        /\ seen_keys' = locals.seen_keys
        /\ missing_details' = locals.missing_details
  /\ emitted_by' = << >>
  /\ i' = 0
  /\ pc' = "loop"
  /\ t_first' = Some(Outcome)
  /\ t_call' = 2
  /\ t_now' = t_now + Days(1)
  /\ UNCHANGED <<issues, end_date>>

(***************************************************************************)
(* The cursor-pagination loops of fetch_issues, get_wip_issues and         *)
(* get_cycle_time_issues (modules/jira_api.py)                             *)
(***************************************************************************)
PageFunctions == {"fetch_issues", "get_wip_issues", "get_cycle_time_issues"}

\* bool(result.get("isLast")): an absent key and false are false
TruthyFlag(o) == o # None /\ Val(o)

\* bool(token): None and "" are false
Truthy(o) == o # None /\ Val(o) # ""

\* a page of the server: the JSON of a response; None stands for an absent key
Page(iss, last, tok) == [issues |-> iss, isLast |-> last, nextPageToken |-> tok]

\* the last member is the JSON {}: no issues, no isLast, no nextPageToken
Pages ==
  {Page(iss, last, tok) :
     iss \in {Some(<<"I1">>), Some(<<"I2", "I3">>)},
     last \in {None, Some(TRUE), Some(FALSE)},
     tok \in {None, Some(""), Some("t1"), Some("t2")}}
    \cup {Page(None, None, None)}

\* the payload _search_jql posts: the cursor is in it only if it is truthy
Payload(fn, token) ==
  [maxResults |-> 100,
   expand |-> IF fn = "fetch_issues" THEN None ELSE Some("changelog"),
   nextPageToken |-> IF Truthy(token) THEN token ELSE None]

\* result.get("issues", [])
BatchOf(result) == IF result.issues = None THEN << >> ELSE Val(result.issues)

\* the break test without its test of nextPageToken
BreaksLoop_OnIsLastOnly(result) == TruthyFlag(result.isLast)

\* if result.get("isLast") or not result.get("nextPageToken"): break
BreaksLoop(result) == TruthyFlag(result.isLast) \/ ~Truthy(result.nextPageToken)

InitPages ==
  /\ p_fn \in PageFunctions
  /\ p_pc = "loop"
  /\ p_token = None
  /\ p_all = << >>
  /\ p_result = None
  /\ p_requests = << >>
  /\ p_pages = << >>
  /\ p_returned = None

\* result = _search_jql(..., next_page_token=token, ...): the request is
\* posted and the server answers it with a page of its choice
SearchJql ==
  /\ p_pc = "loop"
  /\ Len(p_pages) < MaxPages
  /\ \E page \in Pages :
       /\ p_result' = Some(page)
       /\ p_pages' = Append(p_pages, page)
  /\ p_requests' = Append(p_requests, Payload(p_fn, p_token))
  /\ p_pc' = "got"
  /\ UNCHANGED <<p_fn, p_token, p_all, p_returned>>

\* the server answers with a status that is not ok: _search_jql raises
\* requests.HTTPError, which no loop catches
SearchJqlRaises ==
  /\ p_pc = "loop"
  /\ Len(p_pages) < MaxPages
  /\ p_requests' = Append(p_requests, Payload(p_fn, p_token))
  /\ p_pc' = "raised"
  /\ UNCHANGED <<p_fn, p_token, p_all, p_result, p_pages, p_returned>>

\* the rest of the loop body: extend, then break or take the cursor
HandlePage ==
  /\ p_pc = "got"
  /\ p_all' = p_all \o BatchOf(Val(p_result))
  /\ IF BreaksLoop(Val(p_result))
     THEN /\ p_pc' = "after"
          /\ p_token' = p_token
     ELSE /\ p_pc' = "loop"
          /\ p_token' = Val(p_result).nextPageToken
  /\ UNCHANGED <<p_fn, p_result, p_requests, p_pages, p_returned>>

\* return {"issues": all_issues} (fetch_issues) / return issues (the others)
ReturnIssues ==
  /\ p_pc = "after"
  /\ p_returned' = IF p_fn = "fetch_issues"
                   THEN Some([issues |-> p_all])
                   ELSE Some(p_all)
  /\ p_pc' = "returned"
  /\ UNCHANGED <<p_fn, p_token, p_all, p_result, p_requests, p_pages>>

PagesIdle ==
  /\ p_fn = "fetch_issues"
  /\ p_pc = "idle"
  /\ p_token = None
  /\ p_all = << >>
  /\ p_result = None
  /\ p_requests = << >>
  /\ p_pages = << >>
  /\ p_returned = None

(***************************************************************************)
(* The query start date of get_last_n_months_issues and                    *)
(* get_cycle_time_issues (modules/jira_api.py)                             *)
(***************************************************************************)
StartFunctions == {"get_last_n_months_issues", "get_cycle_time_issues"}

Date(y, m, d) == [year |-> y, month |-> m, day |-> d]

Years == {2025, 2026}

Nows == {Date(y, m, d) : y \in Years, m \in 1..12, d \in {1, 28}}

\* x or 12
OrTwelve(x) == IF x = 0 THEN 12 ELSE x

\* month = (start_date.month - months + 12) % 12 or 12
StartMonth(start_date, months) == OrTwelve((start_date.month - months + 12) % 12)

\* year = start_date.year if start_date.month > months else start_date.year - 1
StartYear(start_date, months) ==
  IF start_date.month > months THEN start_date.year ELSE start_date.year - 1

InitStart ==
  /\ q_fn \in StartFunctions
  /\ q_now \in Nows
  /\ q_months \in 0..MaxMonths
  /\ q_pc = "call"
  /\ q_start = None

\* now.replace(day=1), then .replace(month=month, year=year): the date that
\* strftime('%Y-%m-%d') puts in the JQL
BuildQuery ==
  /\ q_pc = "call"
  /\ LET start_date == Date(q_now.year, q_now.month, 1)
     IN q_start' = Some(Date(StartYear(start_date, q_months),
                             StartMonth(start_date, q_months),
                             start_date.day))
  /\ q_pc' = "built"
  /\ UNCHANGED <<q_fn, q_now, q_months>>

StartIdle ==
  /\ q_fn = "get_cycle_time_issues"
  /\ q_now = Date(2025, 1, 1)
  /\ q_months = 0
  /\ q_pc = "idle"
  /\ q_start = None

(***************************************************************************)
(* parse_cycle_time_issues (modules/metrics_calculations.py)               *)
(***************************************************************************)
\* fields.get("resolutiondate"): absent, or a timestamp string
ResolutionDates == {None, Some(Stamp(2, 0)), Some(Stamp(Days(2), 0))}

CycleIssue(k, r, h) ==
  [key |-> k,
   fields |-> [summary |-> "s-" \o k, assignee |-> "u", resolutiondate |-> r],
   histories |-> h]

CycleBatches ==
  {<<CycleIssue("A", r, h)>> :
     r \in ResolutionDates, h \in SeqsUpTo(Entries, MaxHist)}
    \cup SeqsUpTo({CycleIssue(k, r, h) :
                     k \in {"A", "B"}, r \in ResolutionDates \ {Some(Stamp(2, 0))},
                     h \in BatchHistories},
                  MaxIssues)

\* pd.to_datetime(x, utc=True) of a value that may be None: None stays None
ToDatetimeOrNone(x) == IF x = None THEN None ELSE Some(ToDatetimeUtc(Val(x)))

\* the body of `for item in entry.get("items", [])` on the local in_progress_dt
CycleItemStep(dt, entry, item) ==
  IF item.field = "status" /\ item.toString = InProgress /\ dt = None
  THEN ToDatetimeOrNone(entry.created)
  ELSE dt

RECURSIVE CycleItemsWalk(_, _, _)
CycleItemsWalk(dt, entry, items) ==
  IF items = << >> THEN dt
  ELSE CycleItemsWalk(CycleItemStep(dt, entry, items[1]), entry,
                      SubSeq(items, 2, Len(items)))

\* `for entry in changelog`, in the order of the list: in_progress_dt after it
RECURSIVE FirstInProgress(_)
FirstInProgress(changelog) ==
  IF changelog = << >> THEN None
  ELSE CycleItemsWalk(FirstInProgress(SubSeq(changelog, 1, Len(changelog) - 1)),
                      changelog[Len(changelog)],
                      changelog[Len(changelog)].items)

CycleRecord(issue, in_progress_dt, resolved_dt) ==
  [key |-> issue.key, summary |-> issue.fields.summary,
   assignee |-> issue.fields.assignee,
   in_progress |-> in_progress_dt, resolved |-> resolved_dt,
   cycle_time_days |-> TimedeltaDays(resolved_dt - in_progress_dt),
   parent |-> None, parent_summary |-> None]

InitCycle ==
  /\ y_issues \in CycleBatches
  /\ y_i = 0
  /\ y_pc = "loop"
  /\ y_records = << >>
  /\ y_by = << >>

\* one iteration of `for issue in issues`
CycleIssueStep ==
  /\ y_pc = "loop"
  /\ y_i < Len(y_issues)
  /\ LET issue == y_issues[y_i + 1]
         resolved_dt == ToDatetimeOrNone(issue.fields.resolutiondate)
         in_progress_dt == FirstInProgress(issue.histories)
     IN IF in_progress_dt # None /\ resolved_dt # None
        THEN /\ y_records' =
                  Append(y_records,
                         CycleRecord(issue, Val(in_progress_dt), Val(resolved_dt)))
             /\ y_by' = Append(y_by, y_i + 1)
        ELSE UNCHANGED <<y_records, y_by>>
  /\ y_i' = y_i + 1
  /\ UNCHANGED <<y_issues, y_pc>>

\* return pd.DataFrame(records)
CycleReturn ==
  /\ y_pc = "loop"
  /\ y_i = Len(y_issues)
  /\ y_pc' = "done"
  /\ UNCHANGED <<y_issues, y_i, y_records, y_by>>

CycleIdle ==
  /\ y_issues = << >>
  /\ y_i = 0
  /\ y_pc = "idle"
  /\ y_records = << >>
  /\ y_by = << >>

ParseIdle ==
  /\ issues = << >>
  /\ end_date = 0
  /\ i = 0
  /\ pc = "idle"
  /\ wip_records = << >>
  /\ seen_keys = {}
  /\ missing_details = << >>
  /\ emitted_by = << >>

MonthIdle ==
  /\ m_records = << >>
  /\ m_month = 1
  /\ m_pc = "idle"
  /\ m_rows = << >>

CensusIdle ==
  /\ c_records = << >>
  /\ c_today = 0
  /\ c_lookback = 0
  /\ c_pc = "idle"
  /\ c_fn = "plot"
  /\ wip_counts = << >>
  /\ c_summary = None

TwiceIdle ==
  /\ t_now = 0
  /\ t_call = 1
  /\ t_first = None

RestIdle == TwiceIdle /\ PagesIdle /\ StartIdle /\ CycleIdle

Init == InitParse /\ MonthIdle /\ CensusIdle /\ RestIdle

Next ==
  \/ ProcessIssue /\ UNCHANGED <<monthVars, censusVars, restVars>>
  \/ RaiseKeyError /\ UNCHANGED <<monthVars, censusVars, restVars>>
  \/ Return /\ UNCHANGED <<monthVars, censusVars, restVars>>

Spec == Init /\ [][Next]_vars

NextMonth ==
  \/ MonthReturn /\ UNCHANGED <<parseVars, censusVars, restVars>>
  \/ MonthRaiseKeyError /\ UNCHANGED <<parseVars, censusVars, restVars>>

MonthSpecInit == ParseIdle /\ InitMonth /\ CensusIdle /\ RestIdle

SpecMonth == MonthSpecInit /\ [][NextMonth]_vars

NextCensus ==
  \/ CensusReturn /\ UNCHANGED <<parseVars, monthVars, restVars>>
  \/ CensusRaiseIndexError /\ UNCHANGED <<parseVars, monthVars, restVars>>

CensusSpecInit == ParseIdle /\ MonthIdle /\ InitCensus /\ RestIdle

SpecCensus == CensusSpecInit /\ [][NextCensus]_vars

NextTwice ==
  \/ ProcessIssue /\ UNCHANGED <<monthVars, censusVars, restVars>>
  \/ RaiseKeyError /\ UNCHANGED <<monthVars, censusVars, restVars>>
  \/ Return /\ UNCHANGED <<monthVars, censusVars, restVars>>
  \/ CallAgain /\ UNCHANGED <<monthVars, censusVars, pageVars, startVars, cycleVars>>

SpecTwice == Init /\ [][NextTwice]_vars

NextPages ==
  \/ SearchJql /\ UNCHANGED <<parseVars, monthVars, censusVars, twiceVars, startVars, cycleVars>>
  \/ SearchJqlRaises /\ UNCHANGED <<parseVars, monthVars, censusVars, twiceVars, startVars, cycleVars>>
  \/ HandlePage /\ UNCHANGED <<parseVars, monthVars, censusVars, twiceVars, startVars, cycleVars>>
  \/ ReturnIssues /\ UNCHANGED <<parseVars, monthVars, censusVars, twiceVars, startVars, cycleVars>>

PagesSpecInit ==
  ParseIdle /\ MonthIdle /\ CensusIdle /\ TwiceIdle /\ InitPages /\ StartIdle /\ CycleIdle

\* the loop body and the return are straight-line code, and a posted request
\* is answered: a step that can be taken is taken
SpecPages == PagesSpecInit /\ [][NextPages]_vars /\ WF_vars(NextPages)

NextStart ==
  BuildQuery /\ UNCHANGED <<parseVars, monthVars, censusVars, twiceVars, pageVars, cycleVars>>

StartSpecInit ==
  ParseIdle /\ MonthIdle /\ CensusIdle /\ TwiceIdle /\ PagesIdle /\ InitStart /\ CycleIdle

SpecStart == StartSpecInit /\ [][NextStart]_vars

NextCycle ==
  \/ CycleIssueStep
       /\ UNCHANGED <<parseVars, monthVars, censusVars, twiceVars, pageVars, startVars>>
  \/ CycleReturn
       /\ UNCHANGED <<parseVars, monthVars, censusVars, twiceVars, pageVars, startVars>>

CycleSpecInit ==
  ParseIdle /\ MonthIdle /\ CensusIdle /\ TwiceIdle /\ PagesIdle /\ StartIdle /\ InitCycle

SpecCycle == CycleSpecInit /\ [][NextCycle]_vars

(***************************************************************************)
(* Reading the state of a parse_wip_ranges call.                           *)
(***************************************************************************)
\* the issues whose loop iteration ran to its end
CompletedIssues == {n \in 1..i : ~(pc = "raised" /\ n = i)}

\* the positions in wip_records of the records appended for issue n
RecsOf(n) == {k \in 1..Len(wip_records) : emitted_by[k].issue = n}

BranchRecs(n, b) == {k \in RecsOf(n) : emitted_by[k].branch = b}

Malformed(n) == HasKeyError(issues[n].histories)

\* the calendar day an instant falls in
DayOf(t) == t \div TicksPerDay

(***************************************************************************)
(* Claims on parse_wip_ranges (specification Spec).                        *)
(***************************************************************************)

\* C1: every issue that is 'In Progress' and whose sorted walk ends with an
\* entry still open gets the open interval [entry, end_date], and gets no
\* fallback interval and no missing_details entry, also after closed intervals.
C1_OpenEntryGivesOpenInterval ==
  \A n \in CompletedIssues :
    LET issue == issues[n]
        w == Walk(issue)
    IN (issue.fields.status = InProgress /\ w.in_progress_start # None) =>
         /\ \E k \in BranchRecs(n, "open") :
              /\ wip_records[k].start = Val(w.in_progress_start)
              /\ wip_records[k].end = end_date
         /\ BranchRecs(n, "fallback") = {}

\* C2: a fallback interval is produced for an issue only if its status is
\* 'In Progress' and no closed or open interval was emitted for it.
C2_FallbackOnlyWithoutIntervals ==
  \A n \in CompletedIssues :
    BranchRecs(n, "fallback") # {} =>
      /\ issues[n].fields.status = InProgress
      /\ BranchRecs(n, "closed") = {}
      /\ BranchRecs(n, "open") = {}

\* C3: every record of wip_records has start <= end.
C3_StartNotAfterEnd ==
  \A k \in 1..Len(wip_records) : wip_records[k].start <= wip_records[k].end

\* C4: the intervals of one issue are in chronological order and do not
\* overlap: each ends no later than every later interval of the issue starts.
C4_ChronologicalNonOverlapping ==
  \A n \in CompletedIssues :
    \A k1 \in RecsOf(n), k2 \in RecsOf(n) :
      k1 < k2 => wip_records[k1].end <= wip_records[k2].start

\* C5: an entry with no 'created' in one issue does not fail the call, and
\* the closed intervals of every other issue are returned.
C5_MalformedEntryContained ==
  (\E n \in 1..Len(issues) : Malformed(n)) =>
    /\ pc # "raised"
    /\ pc = "done" =>
         \A n \in 1..Len(issues) :
           ~Malformed(n) => Len(Walk(issues[n]).out) = Cardinality(BranchRecs(n, "closed"))

\* C9: an 'In Progress' issue with an empty changelog gets exactly one
\* interval, [max(created, end_date - 30 days), end_date], and exactly one
\* (key, summary) entry in missing_details.
C9_EmptyChangelogFallback ==
  \A n \in CompletedIssues :
    LET issue == issues[n]
    IN (issue.histories = << >> /\ issue.fields.status = InProgress) =>
         /\ Cardinality(RecsOf(n)) = 1
         /\ \A k \in RecsOf(n) :
              /\ wip_records[k].start =
                   Max(ToDatetimeUtc(issue.fields.created), end_date - Days(30))
              /\ wip_records[k].end = end_date
              /\ emitted_by[k].branch = "fallback"
         /\ \E j \in 1..Len(missing_details) :
              missing_details[j] = <<issue.key, issue.fields.summary>>

\* C10: an issue whose status is not 'In Progress' gets only the closed
\* intervals of its matched enter/leave pairs: no open interval, no fallback
\* interval, no missing_details entry; an empty changelog gives no interval
\* and an entry left open at the end of the walk gives none.
C10_NotInProgressOnlyClosed ==
  \A n \in CompletedIssues :
    LET issue == issues[n]
        leaves == {e \in 1..Len(issue.histories) :
                     \E x \in 1..Len(issue.histories[e].items) :
                       /\ issue.histories[e].items[x].field = "status"
                       /\ issue.histories[e].items[x].fromString = InProgress}
    IN issue.fields.status # InProgress =>
         /\ BranchRecs(n, "open") = {}
         /\ BranchRecs(n, "fallback") = {}
         /\ Cardinality(RecsOf(n)) <= Cardinality(leaves)
         /\ \A k \in RecsOf(n) :
              \E e \in leaves :
                wip_records[k].end = ToDatetimeUtc(Val(issue.histories[e].created))
         /\ Len(missing_details) =
              Cardinality({k \in 1..Len(wip_records) : emitted_by[k].branch = "fallback"})
         /\ \A j \in 1..Len(missing_details) :
              \E m \in CompletedIssues :
                /\ issues[m].fields.status = InProgress
                /\ missing_details[j] = <<issues[m].key, issues[m].fields.summary>>

\* C10 witness: a finished call on an issue that is not 'In Progress', with a
\* closed interval behind it and an entry left open at the end of its walk.
C10_Witness ==
  /\ pc = "done"
  /\ \E n \in CompletedIssues :
       /\ issues[n].fields.status # InProgress
       /\ Walk(issues[n]).in_progress_start # None
       /\ BranchRecs(n, "closed") # {}

(***************************************************************************)
(* Claims on get_issues_in_progress_in_month (specification SpecMonth).    *)
(***************************************************************************)

\* C6: when no record overlaps the target month the call returns an empty
\* result and does not fail.
C6_NoOverlapReturnsEmpty ==
  (m_pc \in {"done", "raised"} /\ \A n \in 1..Len(m_records) :
      ~(m_records[n].start <= EndOfMonth(m_month)
          /\ m_records[n].end >= StartOfMonth(m_month))) =>
    (m_pc = "done" /\ m_rows = << >>)

\* C8: the call returns one row for exactly the records with
\* start <= end_of_month and end >= start_of_month, and no other row.
C8_RowsAreExactlyOverlapping ==
  m_pc \in {"done", "raised"} =>
    /\ m_pc = "done"
    /\ \A r \in {MonthRow(x) : x \in MonthRecords} :
         Cardinality({j \in 1..Len(m_rows) : m_rows[j] = r}) =
           Cardinality({n \in 1..Len(m_records) :
                          /\ MonthRow(m_records[n]) = r
                          /\ m_records[n].start <= EndOfMonth(m_month)
                          /\ m_records[n].end >= StartOfMonth(m_month)})

(***************************************************************************)
(* Claims on the daily census (specification SpecCensus).                  *)
(***************************************************************************)

\* C7: the count of each day d of the range is the number of intervals with
\* start date <= d <= end date, at date granularity and closed on both ends.
C7_CountsAtDateGranularity ==
  c_pc = "done" =>
    \A k \in 1..Len(wip_counts) :
      wip_counts[k].count =
        Cardinality({n \in 1..Len(c_records) :
                       /\ DayOf(c_records[n].start) <= DayOf(wip_counts[k].day)
                       /\ DayOf(wip_counts[k].day) <= DayOf(c_records[n].end)})

(***************************************************************************)
(* Reference readings of one issue's changelog, used by the claims below.  *)
(***************************************************************************)
\* the instant of a changelog entry
InstantOf(entry) == ToDatetimeUtc(Val(entry.created))

RECURSIVE InsertByInstant(_, _)
InsertByInstant(sortedSeq, e) ==
  IF sortedSeq = << >> THEN <<e>>
  ELSE IF InstantOf(e) < InstantOf(sortedSeq[Len(sortedSeq)])
       THEN Append(InsertByInstant(SubSeq(sortedSeq, 1, Len(sortedSeq) - 1), e),
                   sortedSeq[Len(sortedSeq)])
       ELSE Append(sortedSeq, e)

\* the entries in ascending order of their instants, entries of equal
\* instants in their original order
RECURSIVE TimeSorted(_)
TimeSorted(changelog) ==
  IF changelog = << >> THEN << >>
  ELSE InsertByInstant(TimeSorted(SubSeq(changelog, 1, Len(changelog) - 1)),
                       changelog[Len(changelog)])

\* the status events of a list of entries, in order: <<instant, from, to>>
RECURSIVE StatusEvents(_)
StatusEvents(entries) ==
  IF entries = << >> THEN << >>
  ELSE LET e == Head(entries)
           idx == {x \in 1..Len(e.items) : e.items[x].field = "status"}
           RECURSIVE Pick(_)
           Pick(x) ==
             IF x > Len(e.items) THEN << >>
             ELSE (IF x \in idx
                   THEN <<[at |-> InstantOf(e), from |-> e.items[x].fromString,
                           to |-> e.items[x].toString]>>
                   ELSE << >>) \o Pick(x + 1)
       IN Pick(1) \o StatusEvents(Tail(entries))

\* the entry-pointer walk of the claim over a list of status events: the
\* closed intervals <<start, end>> it emits, from pointer ptr on
RECURSIVE PointerWalk(_, _)
PointerWalk(events, ptr) ==
  IF events = << >> THEN << >>
  ELSE LET ev == Head(events)
       IN IF ev.to = InProgress /\ ptr = None
          THEN PointerWalk(Tail(events), Some(ev.at))
          ELSE IF ev.to = InProgress
          THEN PointerWalk(Tail(events), ptr)
          ELSE IF ev.from = InProgress /\ ptr # None
          THEN <<(<<Val(ptr), ev.at>>)>> \o PointerWalk(Tail(events), None)
          ELSE PointerWalk(Tail(events), ptr)

\* the closed intervals of issue n in wip_records, in order, as <<start, end>>
ClosedOf(n) ==
  LET RECURSIVE From(_)
      From(k) ==
        IF k > Len(wip_records) THEN << >>
        ELSE (IF emitted_by[k] = Tag(n, "closed")
              THEN <<(<<wip_records[k].start, wip_records[k].end>>)>>
              ELSE << >>) \o From(k + 1)
  IN From(1)

(***************************************************************************)
(* Further claims on parse_wip_ranges (specification Spec).                *)
(***************************************************************************)

\* C11: the closed intervals of an issue are exactly those of the
\* entry-pointer walk over its status events sorted by time.
C11_ClosedIntervalsOfTimeSortedWalk ==
  \A n \in CompletedIssues :
    ClosedOf(n) = PointerWalk(StatusEvents(TimeSorted(issues[n].histories)), None)

\* C14: the entries of an issue are processed in ascending order of their
\* timestamps, entries of equal timestamps in their original order.
C14_ProcessedInTimeOrder ==
  \A n \in CompletedIssues :
    SortedChangelog(issues[n].histories) = TimeSorted(issues[n].histories)

\* parse_wip_ranges([issue], e): what a call on the issue alone returns
AloneRecords(issue, e) ==
  LET w == Walk(issue)
      open == StillInProgress(w, issue)
      seen1 == IF open THEN {issue.key} ELSE {}
  IN w.out
       \o (IF open THEN <<WipRecord(issue, Val(w.in_progress_start), e)>> ELSE << >>)
       \o (IF NeedsFallback(issue, seen1)
           THEN <<WipRecord(issue, InferredStart(issue, e), e)>>
           ELSE << >>)

AloneMissing(issue, e) ==
  LET w == Walk(issue)
      seen1 == IF StillInProgress(w, issue) THEN {issue.key} ELSE {}
  IN IF NeedsFallback(issue, seen1)
     THEN <<(<<issue.key, issue.fields.summary>>)>>
     ELSE << >>

\* C12: the result of a batch is the concatenation, in input order, of the
\* results of each issue alone, for the intervals and for missing_details.
C12_BatchIsConcatenation ==
  pc = "done" =>
    LET RECURSIVE Recs(_)
        Recs(n) == IF n = 0 THEN << >>
                   ELSE Recs(n - 1) \o AloneRecords(issues[n], end_date)
        RECURSIVE Miss(_)
        Miss(n) == IF n = 0 THEN << >>
                   ELSE Miss(n - 1) \o AloneMissing(issues[n], end_date)
    IN /\ wip_records = Recs(Len(issues))
       /\ missing_details = Miss(Len(issues))

\* C13: every fallback interval has its (key, summary) entry in
\* missing_details, and an issue listed there has exactly one interval.
C13_MissingDetailsOnlyInferred ==
  \A n \in CompletedIssues :
    BranchRecs(n, "fallback") # {} =>
      /\ \E j \in 1..Len(missing_details) :
           missing_details[j] = <<issues[n].key, issues[n].fields.summary>>
      /\ Cardinality(RecsOf(n)) = 1
      /\ Cardinality({k \in 1..Len(wip_records) : wip_records[k].key = issues[n].key}) = 1

\* C15: no two records of one result share both the key and the start.
C15_KeyAndStartUnique ==
  \A k1 \in 1..Len(wip_records), k2 \in 1..Len(wip_records) :
    (wip_records[k1].key = wip_records[k2].key
       /\ wip_records[k1].start = wip_records[k2].start) => k1 = k2

FallbacksOfKey(key) ==
  {k \in 1..Len(wip_records) :
     emitted_by[k].branch = "fallback" /\ wip_records[k].key = key}

MissingOfKey(key) == {j \in 1..Len(missing_details) : missing_details[j][1] = key}

\* C16: one result holds at most one fallback interval and at most one
\* missing_details entry per issue key.
C16_OneFallbackPerKey ==
  \A key \in {"A", "B"} :
    /\ Cardinality(FallbacksOfKey(key)) <= 1
    /\ Cardinality(MissingOfKey(key)) <= 1

\* C16 witness: a finished call on a batch with two records of one key that
\* would each get a fallback interval alone, and one fallback in the result.
C16_Witness ==
  /\ pc = "done"
  /\ \E n1 \in 1..Len(issues), n2 \in 1..Len(issues) :
       /\ n1 < n2
       /\ issues[n1].key = issues[n2].key
       /\ AloneMissing(issues[n1], end_date) # << >>
       /\ AloneMissing(issues[n2], end_date) # << >>
       /\ Cardinality(FallbacksOfKey(issues[n1].key)) = 1
       /\ Cardinality(MissingOfKey(issues[n1].key)) = 1

(***************************************************************************)
(* Further claims on get_issues_in_progress_in_month (SpecMonth).          *)
(***************************************************************************)

C19_DaysInProgressIsFloorOfWholeInterval ==
  m_pc = "done" =>
    \A j \in 1..Len(m_rows) :
      /\ \E n \in 1..Len(m_records) :
           /\ m_records[n].key = m_rows[j].key
           /\ m_records[n].start = m_rows[j].in_progress_start
           /\ m_records[n].end = m_rows[j].in_progress_end
      /\ Days(m_rows[j].days_in_progress)
           <= m_rows[j].in_progress_end - m_rows[j].in_progress_start
      /\ m_rows[j].in_progress_end - m_rows[j].in_progress_start
           < Days(m_rows[j].days_in_progress + 1)

\* C19 witness: a row of an interval that reaches outside the target month
\* on both sides and is not a whole number of days long.
C19_Witness ==
  /\ m_pc = "done"
  /\ \E j \in 1..Len(m_rows) :
       /\ m_rows[j].in_progress_start < StartOfMonth(m_month)
       /\ m_rows[j].in_progress_end > EndOfMonth(m_month)
       /\ Days(m_rows[j].days_in_progress)
            < m_rows[j].in_progress_end - m_rows[j].in_progress_start

(***************************************************************************)
(* Further claims on the daily census (specification SpecCensus).          *)
(***************************************************************************)

\* C17: a range whose end precedes its start (a negative days_lookback)
\* fails the call; no census is returned for it.
C17_NegativeLookbackRejected ==
  (c_pc \in {"done", "raised"} /\ c_lookback < 0) => c_pc = "raised"

\* C20: for a lookback of N >= 0 days the census has N + 1 entries, one per
\* calendar day from range_start to range_end in ascending order, the last
\* being the range_end day, and the 'current' count is that of the last day.
C20_OneEntryPerDay ==
  (c_pc = "done" /\ c_lookback >= 0) =>
    /\ Len(wip_counts) = c_lookback + 1
    /\ \A k \in 1..Len(wip_counts) :
         DayOf(wip_counts[k].day) = c_today - c_lookback + (k - 1)
    /\ c_fn = "plot" =>
         /\ Val(c_summary).latest_date = c_today
         /\ Val(c_summary).current =
              Cardinality({n \in 1..Len(c_records) :
                             /\ c_records[n].start <= EndOfDay(c_today)
                             /\ EndOfDay(c_today) <= c_records[n].end})

\* C20 witness: plot_daily_wip_time_series has returned over a range of
\* three days with a record counted on the last day.
C20_Witness ==
  /\ c_pc = "done"
  /\ c_fn = "plot"
  /\ c_lookback = 2
  /\ Val(c_summary).current >= 1

(***************************************************************************)
(* Claims about repeated calls, pagination, the query start date and the   *)
(* cycle time                                                              *)
(***************************************************************************)
\* C21: a second call of parse_wip_ranges with the same issues and the same
\* end_date, made later on the wall clock and after the first call is over,
\* ends as the first did: the same records (key, summary, assignee, start,
\* end) in the same order and the same missing_details, or the same KeyError.
C21_SecondCallSameResult ==
  (t_call = 2 /\ pc \in {"done", "raised"}) => Outcome = Val(t_first)

\* a second call that returned, with a fallback record and its
\* missing_details entry, two issues of one key, at a later clock reading
C21_Witness ==
  /\ t_call = 2
  /\ pc = "done"
  /\ t_now > 0
  /\ Len(issues) = 2
  /\ issues[1].key = issues[2].key
  /\ Len(missing_details) = 1
  /\ \E k \in 1..Len(wip_records) : emitted_by[k].branch = "fallback"
  /\ \E k \in 1..Len(wip_records) : emitted_by[k].branch = "closed"

\* a page that ends the pagination: isLast is true, or there is no
\* nextPageToken in it (none, or an empty one)
IsLastPage(page) ==
  page.isLast = Some(TRUE) \/ page.nextPageToken \in {None, Some("")}

LastPageServed == p_pages # << >> /\ IsLastPage(p_pages[Len(p_pages)])

RECURSIVE ConcatIssues(_)
ConcatIssues(pages) ==
  IF pages = << >> THEN << >>
  ELSE ConcatIssues(SubSeq(pages, 1, Len(pages) - 1))
         \o (IF pages[Len(pages)].issues = None THEN << >>
             ELSE pages[Len(pages)].issues[1])

ReturnedList ==
  IF p_fn = "fetch_issues" THEN Val(p_returned).issues ELSE Val(p_returned)

PaginationInOrder ==
  /\ p_requests # << >> => p_requests[1].nextPageToken = None
  /\ \A k \in 2..Len(p_requests) :
       /\ p_requests[k].nextPageToken = p_pages[k - 1].nextPageToken
       /\ p_requests[k].nextPageToken \notin {None, Some("")}
  /\ \A k \in 1..(Len(p_pages) - 1) : ~IsLastPage(p_pages[k])
  /\ Len(p_requests) - Len(p_pages) \in {0, 1}
  /\ LastPageServed => Len(p_requests) = Len(p_pages)
  /\ p_pc \in {"loop", "after", "returned"} => p_all = ConcatIssues(p_pages)
  /\ p_pc = "returned" => LastPageServed /\ ReturnedList = ConcatIssues(p_pages)

\* C22: the first request carries no cursor, every later one carries the
\* nextPageToken of the page received just before it, no request follows a
\* page with isLast true or without nextPageToken, the list returned is the
\* concatenation in order of the issues of the pages received; and the loop
\* is left by its break, the call returning, if and only if the server at
\* some point serves such a last page.  (A request answered with an error
\* status raises HTTPError out of the call: no page is served and nothing
\* is returned.)
C22_CursorPagination ==
  /\ [] PaginationInOrder
  /\ (<>(p_pc = "returned")) => (<> LastPageServed)
  /\ (<> LastPageServed) => (<>(p_pc = "returned"))

\* a call that returned after three pages, the second cursor being another
\* token than the first, the last page ending the loop by its missing token
C22_Witness ==
  /\ p_pc = "returned"
  /\ Len(p_pages) = 3
  /\ p_requests[2].nextPageToken = Some("t1")
  /\ p_requests[3].nextPageToken = Some("t2")
  /\ p_pages[3].isLast = Some(FALSE)
  /\ p_pages[3].nextPageToken = None
  /\ ReturnedList = <<"I2", "I3", "I1", "I2", "I3">>

\* the calendar month n months before month m of year y, counting months
\* from year 0
MonthsBefore(y, m, n) ==
  LET total == y * 12 + (m - 1) - n
  IN [year |-> total \div 12, month |-> (total % 12) + 1]

\* C23: the query start is the first day of the calendar month exactly
\* `months` months before the current month, for every current month and
\* year and every lookback months >= 0, across any number of year boundaries.
C23_StartIsFirstDayNMonthsBack ==
  q_pc = "built" =>
    LET want == MonthsBefore(q_now.year, q_now.month, q_months)
    IN Val(q_start) = Date(want.year, want.month, 1)

\* an entry with a status item whose toString is 'In Progress'
EntersInProgress(entry) ==
  \E k \in 1..Len(entry.items) :
    entry.items[k].field = "status" /\ entry.items[k].toString = InProgress

\* the instants of the entries of an issue that enter 'In Progress'
EnterInstants(issue) ==
  {ToDatetimeUtc(Val(issue.histories[k].created)) :
     k \in {j \in 1..Len(issue.histories) :
              /\ EntersInProgress(issue.histories[j])
              /\ issue.histories[j].created # None}}

Earliest(S) == CHOOSE x \in S : \A y \in S : x <= y

CycleRecsOf(n) == {k \in 1..Len(y_records) : y_by[k] = n}

\* an issue with no entry into 'In Progress', or with no resolution date,
\* yields no record
NoRecordWithoutEntryOrResolution(n) ==
  ((\A k \in 1..Len(y_issues[n].histories) :
      ~EntersInProgress(y_issues[n].histories[k]))
   \/ y_issues[n].fields.resolutiondate = None)
    => CycleRecsOf(n) = {}

\* C24: the 'in_progress' of every record is the instant of the
\* chronologically earliest entry of its issue that has a status item with
\* toString 'In Progress', whatever the order of the histories list, and the
\* cycle time is counted from it; an issue with no such entry or with no
\* resolution date yields no record.
C24_CycleTimeFromEarliestEntry ==
  \A n \in 1..y_i :
    /\ NoRecordWithoutEntryOrResolution(n)
    /\ \A k \in CycleRecsOf(n) :
         /\ y_records[k].in_progress = Earliest(EnterInstants(y_issues[n]))
         /\ y_records[k].cycle_time_days =
              TimedeltaDays(y_records[k].resolved
                              - Earliest(EnterInstants(y_issues[n])))

====
